---- MODULE Spec2Model ----
(***************************************************************************)
(* A model of silos: the structural mutation engine (src/v2/mutation.rs),  *)
(* the retrieval state (src/state.rs), the request handlers                *)
(* (src/v1/api.rs, src/v2/api.rs, src/main.rs, src/lsp.rs) and the index   *)
(* construction at startup (src/main.rs).                                  *)
(***************************************************************************)
EXTENDS Integers, Sequences, FiniteSets

VARIABLES
    source_bytes,   \* apply: the buffer handed to mutation::apply
    mutations,      \* apply: the MutationCollection's mutations, document order
    applied,        \* apply: NotApplied, or the value apply returned
    splits,         \* apply: the SplitMap of that call (NoSplits: none made)
    mode,           \* main: "http" (HttpServer) or "lsp" (tower-lsp Server)
    generate_dict,  \* State: language tag -> index of snippet bodies (v1)
    refactor_dict,  \* State: language tag -> index of collection ids (v2)
    mutations_collection,   \* State: the collections the ids are positions of
    lock,           \* the Mutex around State: its holder (0: free), poisoned
    reqs,           \* the requests in flight: handler, language tag, position
    last,           \* the request that ended last, with its results
    document,       \* from_path: the KDL document of the rule file read
    compiled,       \* from_path: NotCompiled, or what from_path returned
    v1_files,       \* main: the files of ./snippets/v1/*/*.kdl, glob order
    v2_files,       \* main: the files of ./snippets/v2/*/*.kdl, glob order
    boot,           \* main: "start", "serving", or "failed" (main returned Err)
    selected_text,  \* code action: the text of the selected range
    parsed,         \* lsp.rs: NotParsed, or what ParsedAction::new returned
    extracted       \* main.rs: NotParsed, or the description code_action took

applyVars == <<source_bytes, mutations, applied, splits>>
stateVars == <<mode, generate_dict, refactor_dict, mutations_collection>>
serveVars == <<lock, reqs, last>>
bootVars == <<document, compiled, v1_files, v2_files, boot>>
parseVars == <<selected_text, parsed, extracted>>
vars == <<applyVars, stateVars, serveVars, bootVars, parseVars>>

(***************************************************************************)
(* Bounds of the model.                                                    *)
(***************************************************************************)
MaxLen == 3          \* longest source buffer, in bytes
MaxMutations == 2    \* most mutations in one collection
MaxRequests == 2     \* most requests in flight at once
MaxTopK == 1         \* largest top_k a request asks for
MaxAdds == 1         \* most /api/v1/add inserts made while serving
MaxNodes == 2        \* most top-level nodes in one rule document
MaxFiles == 2        \* most rule files in one corpus directory tree
MaxText == 4         \* longest selected text, in tokens

(***************************************************************************)
(* Bytes and text.  "a" is a one-byte (ASCII) character; "L" "C" are the   *)
(* lead and the continuation byte of one two-byte character.  Rule texts   *)
(* use the ASCII characters "X" and "Y", which no source buffer contains.  *)
(***************************************************************************)
Bytes == {"a", "L", "C"}

RECURSIVE SeqsUpTo(_, _)
SeqsUpTo(S, n) ==
    IF n = 0 THEN {<<>>}
    ELSE LET shorter == SeqsUpTo(S, n - 1)
         IN  shorter \cup {Append(s, x) : s \in {t \in shorter : Len(t) = n - 1}, x \in S}

\* std::str::from_utf8's validity test on the model's bytes.
RECURSIVE ValidUtf8(_)
ValidUtf8(b) ==
    IF b = <<>> THEN TRUE
    ELSE IF Head(b) = "L" THEN Len(b) >= 2 /\ b[2] = "C" /\ ValidUtf8(Tail(Tail(b)))
    ELSE IF Head(b) = "C" THEN FALSE
    ELSE ValidUtf8(Tail(b))

\* Every caller passes the bytes of a str (body.as_bytes()): valid UTF-8.
Sources == {b \in SeqsUpTo(Bytes, MaxLen) : ValidUtf8(b)}

\* Result values: Ok(text), Err (an error value), Panic (the thread unwinds).
Ok(t) == [kind |-> "Ok", text |-> t]
Err == [kind |-> "Err", text |-> <<>>]
Panic == [kind |-> "Panic", text |-> <<>>]
NotApplied == [kind |-> "NotApplied", text |-> <<>>]

\* &c[a..b]: panics unless a <= b <= c.len().
SliceOk(c, a, b) == a <= b /\ b <= Len(c)
Slice(c, a, b) == SubSeq(c, a + 1, b)

from_utf8(b) == IF ValidUtf8(b) THEN Ok(b) ELSE Err

(***************************************************************************)
(* The rule format (src/v2/mutation.rs).  An expression is represented by  *)
(* what the query engine does with it on the parsed tree: whether          *)
(* Query::new accepts it, and the captures of its matches in traversal     *)
(* order (a capture: its name and its node's byte range).                  *)
(***************************************************************************)
Literal(t) == [tag |-> "literal", attrib |-> t]
Capture(n) == [tag |-> "capture", attrib |-> n]

Cap(n, s, e) == [name |-> n, start |-> s, end |-> e]

\* A HashMap as a function; insert overwrites the entry of an equal key.
EmptyMap == [k \in {} |-> <<>>]
MapInsert(m, k, v) == [x \in DOMAIN m \cup {k} |-> IF x = k THEN v ELSE m[x]]

\* cap.node.utf8_text(source_bytes): the node's bytes, decoded.
utf8_text(c, src) ==
    IF SliceOk(src, c.start, c.end) THEN from_utf8(Slice(src, c.start, c.end)) ELSE Panic

\* The loop over matcha.captures: `root` sets start/end, any other capture
\* is decoded (unwrap) and inserted into the captures map.
RECURSIVE CookCaptures(_, _, _)
CookCaptures(caps, src, acc) ==
    IF caps = <<>> \/ acc.panicked THEN acc
    ELSE LET cap == Head(caps)
             txt == utf8_text(cap, src)
         IN  IF cap.name = "root"
             THEN CookCaptures(Tail(caps), src,
                               [acc EXCEPT !.start = cap.start, !.end = cap.end])
             ELSE IF txt.kind # "Ok"
             THEN [acc EXCEPT !.panicked = TRUE]
             ELSE CookCaptures(Tail(caps), src,
                    [acc EXCEPT !.captures = MapInsert(acc.captures, cap.name, txt.text)])

QueryCooked(s, e, c, p) == [start |-> s, end |-> e, captures |-> c, panicked |-> p]

\* fn query: Query::new(..).unwrap(), then only the first match is read.
query(expr, src) ==
    IF ~expr.compiles THEN QueryCooked(0, 0, EmptyMap, TRUE)
    ELSE IF expr.matches = <<>> THEN QueryCooked(0, 0, EmptyMap, FALSE)
    ELSE CookCaptures(Head(expr.matches), src, QueryCooked(0, 0, EmptyMap, FALSE))

\* The loop over mutation.substitute: literals verbatim, captures by
\* indexing the captures map (&captures[attrib] panics on a missing key).
RECURSIVE ast_rewrite(_, _)
ast_rewrite(substitute, captures) ==
    IF substitute = <<>> THEN Ok(<<>>)
    ELSE LET sub == Head(substitute)
             rest == ast_rewrite(Tail(substitute), captures)
         IN  IF sub.tag = "capture" /\ sub.attrib \notin DOMAIN captures THEN Panic
             ELSE IF rest.kind # "Ok" THEN rest
             ELSE Ok((IF sub.tag = "literal" THEN sub.attrib ELSE captures[sub.attrib])
                     \o rest.text)

\* split_ats.sort()
Unsorted(s) == s

RECURSIVE InsertSorted(_, _)
InsertSorted(x, s) ==
    IF s = <<>> THEN <<x>>
    ELSE IF x <= Head(s) THEN <<x>> \o s
    ELSE <<Head(s)>> \o InsertSorted(x, Tail(s))

RECURSIVE Sort(_)
Sort(s) == IF s = <<>> THEN <<>> ELSE InsertSorted(Head(s), Sort(Tail(s)))

\* fn split_at_indices: one segment per boundary and a last one to the end
\* of the buffer; indices[k] is the offset values[k] starts at.
RECURSIVE SplitLoop(_, _, _, _, _)
SplitLoop(c, idx, a, values, indices) ==
    IF idx = <<>>
    THEN [values |-> Append(values, Slice(c, a, Len(c))), indices |-> indices,
          panicked |-> FALSE]
    ELSE LET b == Head(idx)
         IN  IF ~SliceOk(c, a, b)
             THEN [values |-> values, indices |-> indices, panicked |-> TRUE]
             ELSE SplitLoop(c, Tail(idx), b, Append(values, Slice(c, a, b)),
                            Append(indices, b))

\* split_at_indices without its last push, values.push(&c[a..]).
split_without_tail(c, idx) ==
    LET m == SplitLoop(c, idx, 0, <<>>, <<0>>)
    IN  [m EXCEPT !.values = SubSeq(m.values, 1, Len(m.values) - 1)]

split_at_indices(c, idx) == SplitLoop(c, idx, 0, <<>>, <<0>>)

\* The first loop of apply: one query per mutation, its start and end
\* pushed to split_ats, its rewrite inserted into the map keyed by start.
RECURSIVE QueryLoop(_, _, _)
QueryLoop(ms, src, acc) ==
    IF ms = <<>> \/ acc.panicked THEN acc
    ELSE LET mutation == Head(ms)
             query_result == query(mutation.expression, src)
             rewrite == ast_rewrite(mutation.substitute, query_result.captures)
         IN  IF query_result.panicked \/ rewrite.kind # "Ok"
             THEN [acc EXCEPT !.panicked = TRUE]
             ELSE QueryLoop(Tail(ms), src,
                    [split_ats |-> acc.split_ats \o <<query_result.start, query_result.end>>,
                     query_result_map |->
                        MapInsert(acc.query_result_map, query_result.start, rewrite.text),
                     panicked |-> FALSE])

\* The second loop of apply: each segment is decoded (`?`), then its
\* rewrite, if its start offset has one, or else its own text is pushed.
RECURSIVE EmitLoop(_, _, _, _)
EmitLoop(indices, values, map, output) ==
    IF values = <<>> \/ indices = <<>> THEN Ok(output)
    ELSE LET split == from_utf8(Head(values))
             i == Head(indices)
         IN  IF split.kind # "Ok" THEN Err
             ELSE EmitLoop(Tail(indices), Tail(values), map,
                           output \o (IF i \in DOMAIN map THEN map[i] ELSE split.text))

Queried(src, ms) ==
    QueryLoop(ms, src, [split_ats |-> <<>>, query_result_map |-> EmptyMap, panicked |-> FALSE])

NoSplits == [values |-> <<>>, indices |-> <<>>, panicked |-> TRUE]

\* split_ats.sort(); split_at_indices(source_bytes, &split_ats)
Partition(src, ms) ==
    IF Queried(src, ms).panicked THEN NoSplits
    ELSE split_at_indices(src, Sort(Queried(src, ms).split_ats))

\* pub fn apply
apply(src, ms) ==
    LET parts == Partition(src, ms)
    IN  IF parts.panicked THEN Panic
        ELSE EmitLoop(parts.indices, parts.values, Queried(src, ms).query_result_map, <<>>)

(***************************************************************************)
(* The inputs of apply: a source and a collection of up to MaxMutations    *)
(* mutations.  A root capture may be any byte range of the source; a       *)
(* `name` capture is the first byte of the root's range.                   *)
(***************************************************************************)
Spans(src) == {sp \in (0..Len(src)) \X (0..Len(src)) : sp[1] <= sp[2]}

Min(a, b) == IF a <= b THEN a ELSE b

Expr(ok, ms) == [compiles |-> ok, matches |-> ms]
RootOnly(sp) == Expr(TRUE, << <<Cap("root", sp[1], sp[2])>> >>)
RootAndName(sp) ==
    Expr(TRUE, << <<Cap("root", sp[1], sp[2]), Cap("name", sp[1], Min(sp[1] + 1, sp[2]))>> >>)
NameOnly(src) == Expr(TRUE, << <<Cap("name", 0, Min(1, Len(src)))>> >>)
NoMatch == Expr(TRUE, <<>>)
BadExpr == Expr(FALSE, <<>>)

SubstX == <<Literal(<<"X">>)>>
SubstYName == <<Literal(<<"Y">>), Capture("name")>>

Mutation(e, sub) == [expression |-> e, substitute |-> sub]

Mutations(src) ==
    {Mutation(RootOnly(sp), SubstX) : sp \in Spans(src)}
    \cup {Mutation(RootAndName(sp), SubstYName) : sp \in Spans(src)}
    \cup {Mutation(NoMatch, SubstX), Mutation(NoMatch, SubstYName),
          Mutation(NameOnly(src), SubstYName), Mutation(BadExpr, SubstX),
          Mutation(RootOnly(<<0, Len(src)>>), SubstYName)}

Collections(src) == SeqsUpTo(Mutations(src), MaxMutations)

(***************************************************************************)
(* Rule compilation (from_path).  A KDL document is the sequence of its    *)
(* top-level nodes, each represented by what from_path reads off it: its   *)
(* name, whether entry(0) is a string, whether it has a children block,    *)
(* its `expression` child ("absent", or a string that is a "valid" or an   *)
(* "invalid" query), its `substitute` child ("absent", "no_block": without *)
(* a children block, or "block") and the entries of that block, each with  *)
(* its tag and whether its entry(0) is a string.                           *)
(***************************************************************************)
SubEntry(tag, arg) == [tag |-> tag, has_arg |-> arg]
TopNode(name, arg, block, expr, subst, entries) ==
    [name |-> name, has_arg |-> arg, has_block |-> block,
     expression |-> expr, substitute |-> subst, entries |-> entries]

DescriptionNode(arg) == TopNode("description", arg, FALSE, "absent", "absent", <<>>)
OtherNode == TopNode("import", TRUE, FALSE, "absent", "absent", <<>>)
MutationNode(expr, subst, entries) == TopNode("mutation", FALSE, TRUE, expr, subst, entries)
BareMutationNode == TopNode("mutation", FALSE, FALSE, "absent", "absent", <<>>)

Compiled(k, d, ms) == [kind |-> k, described |-> d, mutations |-> ms]
NotCompiled == Compiled("NotCompiled", FALSE, <<>>)

\* The strings the model's rule files carry: a valid expression matches the
\* last two bytes of the served body, a literal is "X", a capture is `name`.
ExpressionOf(e) == IF e = "valid" THEN RootOnly(<<1, 3>>) ELSE BadExpr
SubstituteOf(entry) == IF entry.tag = "literal" THEN Literal(<<"X">>) ELSE Capture("name")

\* The loop over substitute's children: entry(0).unwrap().as_string().unwrap(),
\* then the match on the tag with unreachable!() for any other tag.
RECURSIVE SubstituteLoop(_, _)
SubstituteLoop(entries, acc) ==
    IF entries = <<>> THEN [panicked |-> FALSE, substitute |-> acc]
    ELSE LET child == Head(entries)
         IN  IF ~child.has_arg \/ child.tag \notin {"literal", "capture"}
             THEN [panicked |-> TRUE, substitute |-> acc]
             ELSE SubstituteLoop(Tail(entries), Append(acc, SubstituteOf(child)))

\* The loop over doc.nodes(): bail! is an Err, unwrap on None a panic.
RECURSIVE NodeLoop(_, _)
NodeLoop(nodes, acc) ==
    IF nodes = <<>>
    THEN IF acc.described THEN acc ELSE Compiled("Err", FALSE, <<>>)
    ELSE LET node == Head(nodes)
             subs == SubstituteLoop(node.entries, <<>>)
         IN  IF node.name \notin {"mutation", "description"} THEN Compiled("Err", FALSE, <<>>)
             ELSE IF node.name = "description"
             THEN IF ~node.has_arg THEN Compiled("Panic", FALSE, <<>>)
                  ELSE NodeLoop(Tail(nodes), [acc EXCEPT !.described = TRUE])
             ELSE IF ~node.has_block THEN Compiled("Panic", FALSE, <<>>)
             ELSE IF node.expression = "absent" THEN Compiled("Err", FALSE, <<>>)
             ELSE IF node.substitute = "absent" THEN Compiled("Err", FALSE, <<>>)
             ELSE IF node.substitute = "no_block" \/ subs.panicked
             THEN Compiled("Panic", FALSE, <<>>)
             ELSE NodeLoop(Tail(nodes),
                    [acc EXCEPT !.mutations =
                        Append(@, Mutation(ExpressionOf(node.expression), subs.substitute))])

\* pub fn from_path, on a file that reads and parses as KDL.
from_path(doc) == NodeLoop(doc, Compiled("Ok", FALSE, <<>>))

\* The top-level nodes of the documents drawn.
TopNodes ==
    {DescriptionNode(TRUE), DescriptionNode(FALSE), OtherNode, BareMutationNode,
     MutationNode("valid", "block", <<SubEntry("literal", TRUE)>>),
     MutationNode("valid", "block", <<SubEntry("literal", TRUE), SubEntry("capture", TRUE)>>),
     MutationNode("invalid", "block", <<SubEntry("literal", TRUE)>>),
     MutationNode("absent", "block", <<SubEntry("literal", TRUE)>>),
     MutationNode("valid", "absent", <<>>),
     MutationNode("valid", "no_block", <<>>),
     MutationNode("valid", "block", <<SubEntry("node", TRUE)>>),
     MutationNode("valid", "block", <<SubEntry("literal", FALSE)>>)}

Documents == SeqsUpTo(TopNodes, MaxNodes)

(***************************************************************************)
(* The ANN index (hora HNSWIndex) as the code uses it: new, add, build,    *)
(* search.  An index records its items in insertion order, how often build *)
(* was called, and how many adds came after a build.                       *)
(***************************************************************************)
IndexNew == [items |-> <<>>, builds |-> 0, late_adds |-> 0]
IndexAdd(ix, id) ==
    [ix EXCEPT !.items = Append(@, id),
               !.late_adds = IF ix.builds > 0 THEN @ + 1 ELSE @]
IndexBuild(ix) == [ix EXCEPT !.builds = @ + 1]

\* index.search(target, k): up to k items, nearest first.  Which items are
\* nearest depends on the prompt's embedding: any k distinct items in any order.
IndexSearch(ix, k) ==
    LET n == Min(k, Len(ix.items))
        picks == {p \in [1..n -> DOMAIN ix.items] :
                     \A i, j \in 1..n : i # j => p[i] # p[j]}
    IN  {[i \in 1..n |-> ix.items[p[i]]] : p \in picks}

\* dict.entry(lang).or_insert_with(|| HNSWIndex::new(..))
Entry(dict, lang) ==
    IF lang \in DOMAIN dict THEN dict
    ELSE [l \in DOMAIN dict \cup {lang} |-> IF l = lang THEN IndexNew ELSE dict[l]]

\* for index in dict.values_mut() { index.build(..)? }
BuildAll(dict) == [l \in DOMAIN dict |-> IndexBuild(dict[l])]

EmptyDict == [l \in {} |-> IndexNew]

(***************************************************************************)
(* Index construction at startup (main.rs).  A generate rule file: its     *)
(* language directory, whether it has both `desc` and `body`, its body.  A *)
(* refactor rule file: its language directory, whether from_path accepts   *)
(* it, and the mutations it compiles to.                                   *)
(***************************************************************************)
V1File(l, ok, b) == [lang |-> l, desc_body |-> ok, body |-> b]
V2File(l, ok, ms) == [lang |-> l, well_formed |-> ok, mutations |-> ms]

\* The loop over ./snippets/v1/*/*.kdl: the language's entry is made first,
\* a file without desc or body is skipped (continue).
RECURSIVE GenerateLoop(_, _)
GenerateLoop(files, dict) ==
    IF files = <<>> THEN dict
    ELSE LET f == Head(files)
             withEntry == Entry(dict, f.lang)
         IN  IF ~f.desc_body THEN GenerateLoop(Tail(files), withEntry)
             ELSE GenerateLoop(Tail(files),
                    [withEntry EXCEPT ![f.lang] = IndexAdd(@, f.body)])

BuildGenerate(files) == BuildAll(GenerateLoop(files, EmptyDict))

\* The v2 loop, were a malformed file skipped (continue) as in the v1 loop.
RECURSIVE RefactorLoopSkipping(_, _, _)
RefactorLoopSkipping(files, i, acc) ==
    IF files = <<>> THEN acc
    ELSE LET f == Head(files)
         IN  IF ~f.well_formed THEN RefactorLoopSkipping(Tail(files), i + 1, acc)
             ELSE RefactorLoopSkipping(Tail(files), i + 1,
                    [ok |-> TRUE,
                     dict |-> [Entry(acc.dict, f.lang) EXCEPT ![f.lang] = IndexAdd(@, i)],
                     collection |-> Append(acc.collection, f.mutations)])

\* The loop over ./snippets/v2/*/*.kdl, enumerated from i = 0: from_path(path)?
\* ends startup on a malformed file; otherwise i is added to the language's
\* index and the collection is pushed.
RECURSIVE RefactorLoop(_, _, _)
RefactorLoop(files, i, acc) ==
    IF files = <<>> \/ ~acc.ok THEN acc
    ELSE LET f == Head(files)
         IN  IF ~f.well_formed THEN [acc EXCEPT !.ok = FALSE]
             ELSE RefactorLoop(Tail(files), i + 1,
                    [ok |-> TRUE,
                     dict |-> [Entry(acc.dict, f.lang) EXCEPT ![f.lang] = IndexAdd(@, i)],
                     collection |-> Append(acc.collection, f.mutations)])

BuildRefactor(files) ==
    LET looped == RefactorLoop(files, 0,
                    [ok |-> TRUE, dict |-> EmptyDict, collection |-> <<>>])
    IN  [looped EXCEPT !.dict = BuildAll(looped.dict)]

(***************************************************************************)
(* The corpus the served state is built from, and the body refactor        *)
(* requests select: one rule that applies, one that cuts the body inside   *)
(* its two-byte character (apply returns Err), one whose expression does   *)
(* not compile (apply panics).                                             *)
(***************************************************************************)
ServedBody == <<"a", "L", "C">>

RuleOk == <<Mutation(RootOnly(<<1, 3>>), SubstX)>>
RuleErr == <<Mutation(RootOnly(<<2, 3>>), SubstX)>>
RuleBad == <<Mutation(BadExpr, SubstX)>>

ServedV1 == <<V1File("go", TRUE, <<"p">>), V1File("go", TRUE, <<"q">>)>>
ServedV2 == <<V2File("go", TRUE, RuleOk), V2File("go", TRUE, RuleErr),
              V2File("go", TRUE, RuleBad)>>

\* Language tags requests name: "go" has indexes; "rs" is a tag of
\* Refactor::get_lang without an index; "zig" is no tag at all.
RequestLangs == {"go", "rs", "zig"}

\* Refactor::get_lang (state.rs): Ok for the tags of its table.
RegistryTags == {"go", "c", "h", "cpp", "hpp", "js", "ts", "rs"}
\* v2::api::get_lang (v2/api.rs): a grammar for its two tags, else unreachable!().
V2ApiTags == {"go", "rust"}

(***************************************************************************)
(* Requests.  A slot holds a request in flight: its handler, its language  *)
(* tag once the handler has read it, and its position (idle; lock: about   *)
(* to call lock(); locked: holds the guard, about to embed and search).    *)
(* `last` is the request that ended most recently: its handler and tag,    *)
(* the position it ended at, whether embed was called for it, the ids the  *)
(* index search returned, the value of the retrieval (outcome) and what    *)
(* the handler answered (response).  A request's language tag is input it  *)
(* carries from the start; the model draws it where the handler first      *)
(* reads it.                                                               *)
(***************************************************************************)
Requests == 1..MaxRequests
TopKs == 1..MaxTopK

Res(k, vs) == [kind |-> k, values |-> vs]
NoResult == Res("None", <<>>)
OkList(vs) == Res("Ok", vs)
Busy == Res("Busy", <<>>)
EmbedFailed == Res("EmbedFailed", <<>>)
UnknownLang == Res("UnknownLang", <<>>)
SnippetParsing == Res("SnippetParsing", <<>>)
MissingSuffix == Res("MissingSuffix", <<>>)
Panicked == Res("Panic", <<>>)
NoAction == Res("NoAction", <<>>)         \* Ok(None)
Action(text) == Res("Action", <<text>>)   \* Ok(Some(actions)), one TextEdit

IdleReq == [handler |-> "none", lang |-> "none", pc |-> "idle"]
NoLast == [handler |-> "none", lang |-> "none", stage |-> "none", embedded |-> FALSE,
           hits |-> <<>>, outcome |-> NoResult, response |-> NoResult]

AtPc(r, h, pc) == reqs[r].handler = h /\ reqs[r].pc = pc
Begin(r, h, l) == reqs' = [reqs EXCEPT ![r] = [handler |-> h, lang |-> l, pc |-> "lock"]]
Goto(r, pc) == reqs' = [reqs EXCEPT ![r].pc = pc]

\* The request in slot r ends: its record becomes `last`, the slot is free.
End(r, h, l, stage, emb, hits, out, resp) ==
    /\ reqs' = [reqs EXCEPT ![r] = IdleReq]
    /\ last' = [handler |-> h, lang |-> l, stage |-> stage, embedded |-> emb,
                hits |-> hits, outcome |-> out, response |-> resp]

\* std::sync::Mutex: lock() blocks while another thread holds the guard; a
\* guard dropped by a panicking thread poisons the mutex, and lock() on a
\* poisoned mutex returns Err.
LockNoWait == TRUE

LockFree == lock.holder = 0
Acquire(r) == lock' = [lock EXCEPT !.holder = r]
Release(poison) == lock' = [holder |-> 0, poisoned |-> lock.poisoned \/ poison]

\* let Ok(appstate) = data.inner.lock() else { return Err(Busy) };
LockOrBusy(r) ==
    /\ LockFree
    /\ IF lock.poisoned
       THEN /\ End(r, reqs[r].handler, reqs[r].lang, "lock", FALSE, <<>>, Busy, Busy)
            /\ UNCHANGED lock
       ELSE Acquire(r) /\ Goto(r, "locked") /\ UNCHANGED last

\* mutation::apply of each collection the search returned, in its order.
RECURSIVE Applications(_, _)
Applications(hits, collection) ==
    IF hits = <<>> THEN <<>>
    ELSE <<apply(ServedBody, collection[Head(hits) + 1])>>
         \o Applications(Tail(hits), collection)

RECURSIVE OkTexts(_)
OkTexts(rs) ==
    IF rs = <<>> THEN <<>>
    ELSE (IF Head(rs).kind = "Ok" THEN <<Head(rs).text>> ELSE <<>>) \o OkTexts(Tail(rs))

Any(rs, kinds) == \E i \in DOMAIN rs : rs[i].kind \in kinds

\* .filter_map(|&index| match apply(..) { Ok(v) => Some(v), Err(e) => None }).collect()
FilterMapApply(hits, collection) ==
    LET rs == Applications(hits, collection)
    IN  IF Any(rs, {"Panic"}) THEN Panicked ELSE OkList(OkTexts(rs))

\* .map(|v| apply(..).expect(..)).collect()
MapApplyExpect(hits, collection) ==
    LET rs == Applications(hits, collection)
    IN  IF Any(rs, {"Panic", "Err"}) THEN Panicked ELSE OkList(OkTexts(rs))

(***************************************************************************)
(* POST /api/v1/get (v1/api.rs).                                           *)
(***************************************************************************)
v1_get_snippet(r) ==
    /\ UNCHANGED <<applyVars, stateVars, bootVars, parseVars>>
    /\ \/ /\ mode = "http" /\ reqs[r].pc = "idle"
          /\ \/ End(r, "v1_get", "none", "start", FALSE, <<>>, MissingSuffix, MissingSuffix)
             \/ Begin(r, "v1_get", "none") /\ UNCHANGED last
          /\ UNCHANGED lock
       \/ AtPc(r, "v1_get", "lock") /\ LockOrBusy(r)
       \/ /\ AtPc(r, "v1_get", "locked")
          /\ \E l \in RequestLangs :
               \/ /\ End(r, "v1_get", l, "embed", TRUE, <<>>, EmbedFailed, EmbedFailed)
                  /\ Release(FALSE)
               \/ IF l \in DOMAIN generate_dict
                  THEN /\ \E k \in TopKs : \E hits \in IndexSearch(generate_dict[l], k) :
                            End(r, "v1_get", l, "search", TRUE, hits, OkList(hits), OkList(hits))
                       /\ Release(FALSE)
                  ELSE /\ End(r, "v1_get", l, "search", TRUE, <<>>, Panicked, Panicked)
                       /\ Release(TRUE)                       \* appstate.dict[lang]

(***************************************************************************)
(* POST /api/v1/add (v1/api.rs): inserts into the language's index, made   *)
(* on demand, and builds it again.                                         *)
(***************************************************************************)
AddedBody == <<"n">>

Adds ==
    LET RECURSIVE Sum(_)
        Sum(S) == IF S = {} THEN 0
                  ELSE LET l == CHOOSE x \in S : TRUE
                       IN  generate_dict[l].late_adds + Sum(S \ {l})
    IN  Sum(DOMAIN generate_dict)

\* The add requests in flight.
AddsInFlight == Cardinality({q \in Requests : reqs[q].handler = "v1_add"})

add_snippet(r) ==
    /\ UNCHANGED <<applyVars, bootVars, parseVars, mode, refactor_dict, mutations_collection>>
    /\ \/ /\ mode = "http" /\ reqs[r].pc = "idle"
          /\ Adds + AddsInFlight < MaxAdds
          /\ Begin(r, "v1_add", "none")
          /\ UNCHANGED <<lock, last, generate_dict>>
       \/ AtPc(r, "v1_add", "lock") /\ LockOrBusy(r) /\ UNCHANGED generate_dict
       \/ /\ AtPc(r, "v1_add", "locked")
          /\ \E l \in RequestLangs :
               \/ /\ End(r, "v1_add", l, "embed", TRUE, <<>>, EmbedFailed, EmbedFailed)
                  /\ Release(FALSE)
                  /\ UNCHANGED generate_dict
               \/ /\ generate_dict' =
                        [Entry(generate_dict, l) EXCEPT ![l] = IndexBuild(IndexAdd(@, AddedBody))]
                  /\ End(r, "v1_add", l, "search", TRUE, <<>>,
                         OkList(<<AddedBody>>), OkList(<<AddedBody>>))
                  /\ Release(FALSE)

(***************************************************************************)
(* POST /api/v2/get (v2/api.rs).                                           *)
(***************************************************************************)
v2_get_snippet(r) ==
    /\ UNCHANGED <<applyVars, stateVars, bootVars, parseVars>>
    /\ \/ /\ mode = "http" /\ reqs[r].pc = "idle"
          /\ \/ End(r, "v2_get", "none", "start", FALSE, <<>>, MissingSuffix, MissingSuffix)
             \/ \E l \in RequestLangs :
                   IF l \in V2ApiTags THEN Begin(r, "v2_get", l) /\ UNCHANGED last
                   ELSE End(r, "v2_get", l, "start", FALSE, <<>>,
                            Panicked, Panicked)               \* get_lang: unreachable!()
          /\ UNCHANGED lock
       \/ AtPc(r, "v2_get", "lock") /\ LockOrBusy(r)
       \/ /\ AtPc(r, "v2_get", "locked")
          /\ LET l == reqs[r].lang
             IN  \/ /\ End(r, "v2_get", l, "embed", TRUE, <<>>, EmbedFailed, EmbedFailed)
                    /\ Release(FALSE)
                 \/ IF l \in DOMAIN refactor_dict
                    THEN \E k \in TopKs : \E hits \in IndexSearch(refactor_dict[l], k) :
                            LET closest == MapApplyExpect(hits, mutations_collection)
                            IN  /\ End(r, "v2_get", l, "search", TRUE, hits, closest, closest)
                                /\ Release(closest = Panicked)
                    ELSE /\ End(r, "v2_get", l, "search", TRUE, <<>>, Panicked, Panicked)
                         /\ Release(TRUE)                     \* appstate.v2_dict[lang]

(***************************************************************************)
(* The retrieval state (state.rs): State::generate and State::refactor     *)
(* embed the prompt, then search.  Each is the set of <<hits, value>>      *)
(* pairs the embedding and the index search allow.                         *)
(***************************************************************************)
\* Generate::search
generate_search(lang, k) ==
    IF lang \notin DOMAIN generate_dict THEN {<<<<>>, UnknownLang>>}
    ELSE {<<hits, OkList(hits)>> : hits \in IndexSearch(generate_dict[lang], k)}

\* Refactor::search; `parses` is whether parser.parse gave a tree.
refactor_search(lang, parses, k) ==
    IF lang \notin RegistryTags THEN {<<<<>>, UnknownLang>>}
    ELSE IF ~parses THEN {<<<<>>, SnippetParsing>>}
    ELSE IF lang \notin DOMAIN refactor_dict THEN {<<<<>>, Panicked>>}   \* self.dict[lang]
    ELSE {<<hits, FilterMapApply(hits, mutations_collection)>> :
             hits \in IndexSearch(refactor_dict[lang], k)}

\* State::generate
generate(lang, k) == {<<<<>>, EmbedFailed>>} \cup generate_search(lang, k)

\* State::refactor
refactor(lang, k) ==
    {<<<<>>, EmbedFailed>>} \cup refactor_search(lang, TRUE, k)
                            \cup refactor_search(lang, FALSE, k)

(***************************************************************************)
(* textDocument/codeAction, lsp.rs.  The handler calls v1::api::search or  *)
(* v2::api::search with the shared StateWrapper; these two wrappers take   *)
(* the state lock (Busy when that fails) and call State::generate or       *)
(* State::refactor.                                                        *)
(***************************************************************************)
LspHandlers == {"lsp_generate", "lsp_refactor"}

\* v1::api::search, v2::api::search: the lock around the retrieval.
SearchLock(r) ==
    /\ LockFree
    /\ IF lock.poisoned
       THEN /\ End(r, reqs[r].handler, reqs[r].lang, "lock", FALSE, <<>>, Busy, NoAction)
            /\ UNCHANGED lock
       ELSE Acquire(r) /\ Goto(r, "locked") /\ UNCHANGED last

\* closest_matches.into_iter().next(): the first result, or Ok(None).
FirstOrNone(h, out) ==
    IF out.kind = "Panic" THEN Panicked
    ELSE IF out.kind # "Ok" \/ out.values = <<>> THEN NoAction
    ELSE IF h = "lsp_generate" THEN Action(Head(out.values) \o <<"\n">>)
    ELSE Action(Head(out.values))

lsp_code_action(r) ==
    /\ UNCHANGED <<applyVars, stateVars, bootVars, parseVars>>
    /\ \/ /\ mode = "lsp" /\ reqs[r].pc = "idle"
          /\ \E h \in LspHandlers :
                \/ End(r, h, "none", "start", FALSE, <<>>, NoAction, NoAction)
                \/ \E l \in RequestLangs : Begin(r, h, l) /\ UNCHANGED last
          /\ UNCHANGED lock
       \/ /\ reqs[r].handler \in LspHandlers /\ reqs[r].pc = "lock"
          /\ SearchLock(r)
       \/ /\ reqs[r].handler \in LspHandlers /\ reqs[r].pc = "locked"
          /\ LET h == reqs[r].handler
                 l == reqs[r].lang
             IN  \E found \in (IF h = "lsp_generate" THEN generate(l, 1) ELSE refactor(l, 1)) :
                    /\ End(r, h, l, IF found[2] = EmbedFailed THEN "embed" ELSE "search",
                           TRUE, found[1], found[2], FirstOrNone(h, found[2]))
                    /\ Release(found[2] = Panicked)

(***************************************************************************)
(* textDocument/codeAction, main.rs: lock, embed, parse and search inline, *)
(* each failure an expect.  Its get_lang returns a Result; the table is    *)
(* Refactor::get_lang's.                                                   *)
(***************************************************************************)
code_action(r) ==
    /\ UNCHANGED <<applyVars, stateVars, bootVars, parseVars>>
    /\ \/ /\ mode = "lsp" /\ reqs[r].pc = "idle"
          /\ \/ End(r, "main_action", "none", "start", FALSE, <<>>, NoAction, NoAction)
             \/ \E l \in RequestLangs :
                   IF l \in RegistryTags THEN Begin(r, "main_action", l) /\ UNCHANGED last
                   ELSE End(r, "main_action", l, "start", FALSE, <<>>, UnknownLang, NoAction)
          /\ UNCHANGED lock
       \/ /\ AtPc(r, "main_action", "lock")
          /\ LockFree
          /\ IF lock.poisoned
             THEN /\ End(r, "main_action", reqs[r].lang, "lock", FALSE, <<>>,
                         Panicked, Panicked)                  \* .expect("booo")
                  /\ UNCHANGED lock
             ELSE Acquire(r) /\ Goto(r, "locked") /\ UNCHANGED last
       \/ /\ AtPc(r, "main_action", "locked")
          /\ LET l == reqs[r].lang
             IN  \/ /\ End(r, "main_action", l, "embed", TRUE, <<>>,
                           Panicked, Panicked)                \* .expect("booo")
                    /\ Release(TRUE)
                 \/ \E parses \in BOOLEAN :
                      IF ~parses \/ l \notin DOMAIN refactor_dict
                      THEN /\ End(r, "main_action", l, "search", TRUE, <<>>, Panicked, Panicked)
                           /\ Release(TRUE)
                      ELSE \E hits \in IndexSearch(refactor_dict[l], 1) :
                              LET closest == FilterMapApply(hits, mutations_collection)
                                  answer == IF closest.kind = "Panic" \/ closest.values = <<>>
                                            THEN Panicked     \* closest[0]
                                            ELSE Action(closest.values[1])
                              IN  /\ End(r, "main_action", l, "search", TRUE, hits,
                                         closest, answer)
                                  /\ Release(answer = Panicked)

(***************************************************************************)
(* Prompt extraction in the code action.  A text is a sequence of tokens:  *)
(* the markers "generate: ", "refactor: " and "silos: ", the newline, and  *)
(* "x" for any other character.                                            *)
(***************************************************************************)
Tokens == {"generate: ", "refactor: ", "silos: ", "\n", "x"}
Texts == SeqsUpTo(Tokens, MaxText)

\* The first and the last position of token t in s (0: none).
RECURSIVE FindFrom(_, _, _)
FindFrom(s, t, k) ==
    IF k > Len(s) THEN 0
    ELSE IF s[k] = t THEN k
    ELSE FindFrom(s, t, k + 1)

RECURSIVE RFindFrom(_, _, _)
RFindFrom(s, t, k) ==
    IF k = 0 THEN 0
    ELSE IF s[k] = t THEN k
    ELSE RFindFrom(s, t, k - 1)

Split(found, b, a) == [some |-> found, before |-> b, after |-> a]

\* str::split_once: around the first occurrence of the delimiter.
split_once(s, t) ==
    LET k == FindFrom(s, t, 1)
    IN  IF k = 0 THEN Split(FALSE, <<>>, <<>>)
        ELSE Split(TRUE, SubSeq(s, 1, k - 1), SubSeq(s, k + 1, Len(s)))

\* str::rsplit_once: around the last occurrence of the delimiter.
rsplit_once(s, t) ==
    LET k == RFindFrom(s, t, Len(s))
    IN  IF k = 0 THEN Split(FALSE, <<>>, <<>>)
        ELSE Split(TRUE, SubSeq(s, 1, k - 1), SubSeq(s, k + 1, Len(s)))

Parsed(k, a, d) == [kind |-> k, action |-> a, description |-> d]
NotParsed == Parsed("NotParsed", "none", <<>>)
NoneParsed == Parsed("None", "none", <<>>)

\* ParsedAction::new (lsp.rs): the text up to the last newline, split at
\* "generate: ", or else at "refactor: ".
ParsedAction_new(comment) ==
    LET cut == rsplit_once(comment, "\n")
        upto_newline == IF cut.some THEN cut.before ELSE comment
        maybe_generate == split_once(upto_newline, "generate: ")
        maybe_refactor == split_once(upto_newline, "refactor: ")
    IN  IF maybe_generate.some THEN Parsed("Some", "generate", maybe_generate.after)
        ELSE IF maybe_refactor.some THEN Parsed("Some", "refactor", maybe_refactor.after)
        ELSE NoneParsed

\* Backend::code_action (main.rs): after "silos: ", up to the first newline;
\* Ok(None) without the marker or without a newline after it.
silos_description(new_text) ==
    LET marked == split_once(new_text, "silos: ")
        line == split_once(marked.after, "\n")
    IN  IF ~marked.some \/ ~line.some THEN NoneParsed
        ELSE Parsed("Some", "silos", line.before)

ParseUnused ==
    /\ selected_text = <<>>
    /\ parsed = NotParsed
    /\ extracted = NotParsed

(***************************************************************************)
(* Spec: the service once main has built the state from the served corpus. *)
(***************************************************************************)
ApplyUnused ==
    /\ source_bytes = <<>>
    /\ mutations = <<>>
    /\ applied = NotApplied
    /\ splits = NoSplits

\* No rule document is being compiled.
CompileUnused ==
    /\ document = <<>>
    /\ compiled = NotCompiled

Init ==
    /\ ApplyUnused
    /\ ParseUnused
    /\ CompileUnused
    /\ v1_files = ServedV1
    /\ v2_files = ServedV2
    /\ boot = "serving"
    /\ mode \in {"http", "lsp"}
    /\ generate_dict = BuildGenerate(ServedV1)
    /\ refactor_dict = BuildRefactor(ServedV2).dict
    /\ mutations_collection = BuildRefactor(ServedV2).collection
    /\ lock = [holder |-> 0, poisoned |-> FALSE]
    /\ reqs = [r \in Requests |-> IdleReq]
    /\ last = NoLast

Next ==
    \E r \in Requests :
        \/ v1_get_snippet(r)
        \/ add_snippet(r)
        \/ v2_get_snippet(r)
        \/ lsp_code_action(r)
        \/ code_action(r)

Spec == Init /\ [][Next]_vars

(***************************************************************************)
(* SpecApply: one call of mutation::apply on drawn inputs.                 *)
(***************************************************************************)
ServeUnused ==
    /\ mode = "none"
    /\ generate_dict = EmptyDict
    /\ refactor_dict = EmptyDict
    /\ mutations_collection = <<>>
    /\ lock = [holder |-> 0, poisoned |-> FALSE]
    /\ reqs = [r \in Requests |-> IdleReq]
    /\ last = NoLast

BootUnused ==
    /\ CompileUnused
    /\ v1_files = <<>>
    /\ v2_files = <<>>
    /\ boot = "start"

InitApply ==
    /\ ServeUnused
    /\ ParseUnused
    /\ BootUnused
    /\ source_bytes \in Sources
    /\ mutations \in Collections(source_bytes)
    /\ applied = NotApplied
    /\ splits = NoSplits

Apply ==
    /\ applied = NotApplied
    /\ applied' = apply(source_bytes, mutations)
    /\ splits' = Partition(source_bytes, mutations)
    /\ UNCHANGED <<source_bytes, mutations, stateVars, serveVars, bootVars, parseVars>>

NextApply == Apply

SpecApply == InitApply /\ [][NextApply]_vars

(***************************************************************************)
(* SpecCompile: one call of from_path on a drawn document.                 *)
(***************************************************************************)
InitCompile ==
    /\ ApplyUnused
    /\ ParseUnused
    /\ ServeUnused
    /\ document \in Documents
    /\ compiled = NotCompiled
    /\ v1_files = <<>>
    /\ v2_files = <<>>
    /\ boot = "start"

Compile ==
    /\ compiled = NotCompiled
    /\ compiled' = from_path(document)
    /\ UNCHANGED <<applyVars, stateVars, serveVars, parseVars, document, v1_files, v2_files, boot>>

NextCompile == Compile

SpecCompile == InitCompile /\ [][NextCompile]_vars

(***************************************************************************)
(* SpecStartup: main builds the indexes from a drawn corpus.  A refactor   *)
(* rule file is its language directory and what from_path makes of its     *)
(* document.                                                               *)
(***************************************************************************)
\* path_to_parent_base(&path): the directory names of the corpus; "zig" is
\* no tag of Refactor::get_lang.
CorpusLangs == {"go", "zig"}

ReadRule(l, doc) == V2File(l, from_path(doc).kind = "Ok", from_path(doc).mutations)

DocOk == <<DescriptionNode(TRUE), MutationNode("valid", "block", <<SubEntry("literal", TRUE)>>)>>
DocEmpty == <<DescriptionNode(TRUE)>>
DocBadExpr ==
    <<DescriptionNode(TRUE), MutationNode("invalid", "block", <<SubEntry("literal", TRUE)>>)>>
DocNoDesc == <<MutationNode("valid", "block", <<SubEntry("literal", TRUE)>>)>>
DocBare == <<DescriptionNode(TRUE), BareMutationNode>>

V1Files == {V1File(l, ok, <<"p">>) : l \in CorpusLangs, ok \in BOOLEAN}
V2Files ==
    {ReadRule(l, doc) : l \in CorpusLangs,
                        doc \in {DocOk, DocEmpty, DocBadExpr, DocNoDesc, DocBare}}

InitStartup ==
    /\ ApplyUnused
    /\ ParseUnused
    /\ ServeUnused
    /\ CompileUnused
    /\ v1_files \in SeqsUpTo(V1Files, MaxFiles)
    /\ v2_files \in SeqsUpTo(V2Files, MaxFiles)
    /\ boot = "start"

\* async fn main, up to the server it starts: any `?` that fails (and any
\* panic of from_path) ends the process before it serves.
main ==
    /\ boot = "start"
    /\ LET refactor_built == BuildRefactor(v2_files)
       IN  IF refactor_built.ok
           THEN /\ boot' = "serving"
                /\ generate_dict' = BuildGenerate(v1_files)
                /\ refactor_dict' = refactor_built.dict
                /\ mutations_collection' = refactor_built.collection
           ELSE /\ boot' = "failed"
                /\ UNCHANGED <<generate_dict, refactor_dict, mutations_collection>>
    /\ UNCHANGED <<applyVars, serveVars, parseVars, mode, document, compiled, v1_files, v2_files>>

NextStartup == main

SpecStartup == InitStartup /\ [][NextStartup]_vars

(***************************************************************************)
(* SpecParse: the code action reads its prompt off a drawn selection.      *)
(***************************************************************************)
InitParse ==
    /\ ApplyUnused
    /\ ServeUnused
    /\ BootUnused
    /\ selected_text \in Texts
    /\ parsed = NotParsed
    /\ extracted = NotParsed

\* lsp.rs: ParsedAction::new(selected_text)
Parse ==
    /\ parsed = NotParsed
    /\ parsed' = ParsedAction_new(selected_text)
    /\ UNCHANGED <<applyVars, stateVars, serveVars, bootVars, selected_text, extracted>>

\* main.rs: split_once("silos: "), then split_once("\n")
Extract ==
    /\ extracted = NotParsed
    /\ extracted' = silos_description(selected_text)
    /\ UNCHANGED <<applyVars, stateVars, serveVars, bootVars, selected_text, parsed>>

NextParse == Parse \/ Extract

SpecParse == InitParse /\ [][NextParse]_vars

(***************************************************************************)
(* Claims about mutation::apply (checked under SpecApply).                 *)
(***************************************************************************)
Done == applied # NotApplied

\* What the i-th mutation's query gave, and the rewrite text built from it.
QueryResult(i) == query(mutations[i].expression, source_bytes)
Rewrite(i) == ast_rewrite(mutations[i].substitute, QueryResult(i).captures).text

\* The i-th mutation's query matched and its first match binds `root`.
HasRoot(i) ==
    /\ mutations[i].expression.compiles
    /\ mutations[i].expression.matches # <<>>
    /\ \E k \in DOMAIN Head(mutations[i].expression.matches) :
          Head(mutations[i].expression.matches)[k].name = "root"

Occurrences(t, ch) == Cardinality({k \in DOMAIN t : t[k] = ch})

\* The literal character of the i-th mutation's rewrite ("X" or "Y").
Mark(i) == Head(mutations[i].substitute).attrib[1]

RECURSIVE Concat(_)
Concat(ss) == IF ss = <<>> THEN <<>> ELSE Head(ss) \o Concat(Tail(ss))

\* C1 (as claimed): a collection of exactly one mutation whose query matches
\* with root span [s,e) is applied to src[0..s] ++ rewrite ++ src[e..], the
\* rewrite text appearing exactly once, for every s including s = 0.
C1_SingleMutationSplice ==
    (applied.kind = "Ok" /\ Len(mutations) = 1 /\ HasRoot(1)) =>
        LET s == QueryResult(1).start
            e == QueryResult(1).end
        IN  /\ applied.text = Slice(source_bytes, 0, s) \o Rewrite(1)
                                \o Slice(source_bytes, e, Len(source_bytes))
            /\ Occurrences(applied.text, Mark(1)) = 1

\* C2: identity law: apply with a collection of zero mutations returns the
\* (valid UTF-8) source unchanged.
C2_Identity ==
    (Done /\ mutations = <<>>) => applied = Ok(source_bytes)

C2_Witness ==
    /\ Done /\ mutations = <<>>
    /\ Len(source_bytes) >= 2 /\ source_bytes[1] = "L"
    /\ applied.kind = "Ok"

\* C3 (as claimed): when two mutations of one collection have root captures
\* with the same start offset, the output holds only the later mutation's
\* rewrite text at that position, emitted once; the earlier mutation's
\* rewrite text does not appear.
C3_TieBreak ==
    (applied.kind = "Ok" /\ Len(mutations) = 2 /\ HasRoot(1) /\ HasRoot(2)
        /\ QueryResult(1).start = QueryResult(2).start) =>
        LET s == QueryResult(2).start
        IN  /\ SubSeq(applied.text, 1, s + Len(Rewrite(2)))
                  = Slice(source_bytes, 0, s) \o Rewrite(2)
            /\ Occurrences(applied.text, Mark(2)) = 1
            /\ Mark(1) # Mark(2) => Occurrences(applied.text, Mark(1)) = 0

\* C4: segment coverage: for any list of mutation spans within the source
\* the partition step never slices out of range, its segments are contiguous
\* from offset 0 to the end of the source, and concatenated in order they
\* are the source bytes: no gap, and no byte range consumed twice.
C4_SegmentCoverage ==
    (Done /\ ~Queried(source_bytes, mutations).panicked) =>
        /\ ~splits.panicked
        /\ Len(splits.values) = Len(splits.indices)
        /\ Len(splits.values) = 2 * Len(mutations) + 1
        /\ splits.indices[1] = 0
        /\ \A k \in 1..(Len(splits.values) - 1) :
              splits.indices[k + 1] = splits.indices[k] + Len(splits.values[k])
        /\ splits.indices[Len(splits.indices)] + Len(splits.values[Len(splits.values)])
              = Len(source_bytes)
        /\ Concat(splits.values) = source_bytes

\* Two overlapping root spans, given in descending order of start.
C4_Witness ==
    /\ Done /\ Len(mutations) = 2 /\ HasRoot(1) /\ HasRoot(2)
    /\ ~splits.panicked
    /\ QueryResult(1).start > QueryResult(2).start
    /\ QueryResult(1).start < QueryResult(2).end
    /\ QueryResult(1).end > QueryResult(1).start

\* No query of the collection panics and every rewrite is built.
AllCooked ==
    \A i \in DOMAIN mutations :
        /\ ~QueryResult(i).panicked
        /\ ast_rewrite(mutations[i].substitute, QueryResult(i).captures).kind = "Ok"

\* The i-th mutation's substitute names a capture its query did not bind.
NamesUnbound(i) ==
    \E k \in DOMAIN mutations[i].substitute :
        /\ mutations[i].substitute[k].tag = "capture"
        /\ mutations[i].substitute[k].attrib \notin DOMAIN QueryResult(i).captures

\* C12 (as claimed): when a mutation's expression does not compile, apply
\* returns an error value; it does not panic and does not return Ok.
C12_InvalidExpressionIsError ==
    (Done /\ \E i \in DOMAIN mutations : ~mutations[i].expression.compiles)
        => applied.kind = "Err"

\* C13 (as claimed): when every expression compiles and every capture
\* decodes, a substitute naming a capture the query did not bind does not
\* make apply panic.
C13_MissingCaptureIsEmpty ==
    (/\ Done
     /\ \A i \in DOMAIN mutations : ~QueryResult(i).panicked
     /\ \E i \in DOMAIN mutations : NamesUnbound(i))
        => applied.kind # "Panic"

\* C15 (as claimed): a collection all of whose mutations have no root
\* capture (no match, or a first match without `root`) returns the source
\* unchanged.
C15_RootlessIsNoOp ==
    (/\ Done /\ mutations # <<>> /\ AllCooked
     /\ \A i \in DOMAIN mutations : ~HasRoot(i))
        => applied = Ok(source_bytes)

\* C16 (as claimed): the segment start offsets are strictly increasing, so
\* no two segments start at the same offset.
C16_BoundariesDeduplicated ==
    (Done /\ ~splits.panicked) =>
        \A j, k \in DOMAIN splits.indices :
            j < k => splits.indices[j] < splits.indices[k]

(***************************************************************************)
(* Claims about the service (Spec).                                        *)
(***************************************************************************)
Ended(hs, stages) == last.handler \in hs /\ last.stage \in stages

\* The index the handler searches for a language tag, if there is one.
HasIndex(h, l) ==
    IF h \in {"lsp_generate", "v1_get"} THEN l \in DOMAIN generate_dict
    ELSE l \in DOMAIN refactor_dict

\* The rewritten bodies of the hits whose application succeeds, in hit order.
Survivors(hits) == OkTexts(Applications(hits, mutations_collection))

\* C5: a generate or refactor request that names a language without an
\* index in its corpus, and got as far as resolving the language, ends with
\* UnknownLang (a body that does not parse aside).
C5_UnknownLanguage ==
    (/\ Ended({"lsp_generate", "lsp_refactor", "v2_get"}, {"start", "search"})
     /\ last.lang \in RequestLangs
     /\ ~HasIndex(last.handler, last.lang)
     /\ last.outcome # SnippetParsing)
        => last.outcome = UnknownLang

\* C6: a refactor request whose index search returned hits ends with Ok and
\* exactly the successful applications of its hits, in hit order; the hits
\* whose application fails are left out.
C6_FailedCandidatesDropped ==
    (Ended({"lsp_refactor", "v2_get"}, {"search"}) /\ last.hits # <<>>)
        => last.outcome = OkList(Survivors(last.hits))

\* C7: a code action whose search ends with an empty Ok list answers with
\* no action.
C7_EmptyIsNoAction ==
    (/\ Ended({"lsp_generate", "lsp_refactor", "main_action"}, {"search"})
     /\ last.outcome = OkList(<<>>))
        => last.response = NoAction

\* C8: a request that is about to embed and search holds the state lock, and
\* no two requests are there at once.
C8_MutualExclusion ==
    \A r, q \in Requests :
        reqs[r].pc = "locked" =>
            /\ lock.holder = r
            /\ (reqs[q].pc = "locked" => q = r)

\* One request holds the lock while another has called lock() and waits.
C8_Witness ==
    \E r, q \in Requests :
        /\ r # q
        /\ reqs[r].pc = "locked" /\ lock.holder = r
        /\ reqs[q].pc = "lock"

\* C9: a request whose lock() call fails ends with Busy, having called
\* neither embed nor search.
C9_LockFailureIsBusy ==
    last.stage = "lock" =>
        /\ last.outcome = Busy
        /\ ~last.embedded
        /\ last.hits = <<>>

\* C10: every index has been built exactly once and has received no insert
\* after its build.
C10_IndexLifecycle ==
    /\ \A l \in DOMAIN generate_dict :
          generate_dict[l].builds = 1 /\ generate_dict[l].late_adds = 0
    /\ \A l \in DOMAIN refactor_dict :
          refactor_dict[l].builds = 1 /\ refactor_dict[l].late_adds = 0

\* C14 (as claimed): a refactor request resolves the grammar and parses the
\* body before it embeds the prompt: one that names a tag outside the
\* registry ends with UnknownLang, one whose body does not parse ends with
\* SnippetParsing, and for neither has embed been called.
C14_ResolveParseBeforeEmbed ==
    Ended({"lsp_refactor"}, {"embed", "search"}) =>
        /\ last.lang \notin RegistryTags =>
              (last.outcome = UnknownLang /\ ~last.embedded)
        /\ last.outcome = SnippetParsing => ~last.embedded

\* C20 (as claimed): no request of the HTTP service is refused with Busy
\* because an earlier request failed while it held the state lock: the lock
\* is never left poisoned.
C20_FailureIsolation ==
    /\ ~lock.poisoned
    /\ last.handler \in {"v1_get", "v1_add", "v2_get"} => last.outcome # Busy

(***************************************************************************)
(* Claims about rule compilation (SpecCompile) and startup (SpecStartup).  *)
(***************************************************************************)
\* The documents the rule format rejects: a top-level node that is neither
\* `description` nor `mutation`, a mutation without `expression` or
\* `substitute` (a mutation without a children block has neither), a
\* substitute entry that is neither `literal` nor `capture`, no description.
Malformed(doc) ==
    \/ \E k \in DOMAIN doc : doc[k].name \notin {"description", "mutation"}
    \/ \E k \in DOMAIN doc :
          /\ doc[k].name = "mutation"
          /\ \/ ~doc[k].has_block
             \/ doc[k].expression = "absent"
             \/ doc[k].substitute = "absent"
             \/ \E e \in DOMAIN doc[k].entries :
                   doc[k].entries[e].tag \notin {"literal", "capture"}
    \/ \A k \in DOMAIN doc : doc[k].name # "description"

\* C11 (as claimed): from_path returns an error value, not a panic and not
\* a collection, for every malformed document.
C11_MalformedRuleIsError ==
    (compiled # NotCompiled /\ Malformed(document)) => compiled.kind = "Err"

\* The ids stored in the refactor indexes, with the language of each.
StoredIds ==
    {<<l, k>> : l \in DOMAIN refactor_dict, k \in 1..MaxFiles + 1}
IdAt(lk) == refactor_dict[lk[1]].items[lk[2]]
Stored == {lk \in StoredIds : lk[2] \in DOMAIN refactor_dict[lk[1]].items}

\* C17: once main serves, every id stored in a refactor index is a position
\* of mutations_collection, no id is stored twice, and the rule file read
\* in the j-th round has its id in its language's index and its mutations
\* at that position of mutations_collection.
C17_RefactorIds ==
    boot = "serving" =>
        /\ \A lk \in Stored : IdAt(lk) \in 0..(Len(mutations_collection) - 1)
        /\ \A lk, mn \in Stored : IdAt(lk) = IdAt(mn) => lk = mn
        /\ Len(mutations_collection) = Len(v2_files)
        /\ \A j \in DOMAIN v2_files :
              /\ v2_files[j].lang \in DOMAIN refactor_dict
              /\ \E lk \in Stored : lk[1] = v2_files[j].lang /\ IdAt(lk) = j - 1
              /\ mutations_collection[j] = v2_files[j].mutations

\* Rule files of different collections in two language directories, served.
C17_Witness ==
    /\ boot = "serving"
    /\ Len(v2_files) >= 2
    /\ v2_files[1].lang # v2_files[2].lang
    /\ v2_files[1].mutations # v2_files[2].mutations
    /\ Cardinality(Stored) = 2

\* C18 (as claimed): main does not serve a corpus with a broken rule: a
\* generate rule without desc or body, a refactor rule that is malformed or
\* has an expression that does not compile.
C18_BrokenRuleIsFatal ==
    boot = "serving" =>
        /\ \A j \in DOMAIN v1_files : v1_files[j].desc_body
        /\ \A j \in DOMAIN v2_files :
              /\ v2_files[j].well_formed
              /\ \A m \in DOMAIN v2_files[j].mutations :
                    v2_files[j].mutations[m].expression.compiles

\* C19 (as claimed): the keys of both index maps are tags of the registry,
\* and generate rejects every tag the registry does not have, also when the
\* corpus has a directory of that name.
C19_TagsAreRegistryTags ==
    boot = "serving" =>
        /\ DOMAIN generate_dict \subseteq RegistryTags
        /\ DOMAIN refactor_dict \subseteq RegistryTags
        /\ \A l \in RequestLangs \ RegistryTags :
              generate_search(l, 1) = {<<<<>>, UnknownLang>>}

(***************************************************************************)
(* Claims about prompt extraction (SpecParse).                             *)
(***************************************************************************)
\* The text between the first occurrence of marker t and the end of its
\* line.
RestOfLine(s, t) ==
    LET after == split_once(s, t).after
        k == FindFrom(after, "\n", 1)
    IN  IF k = 0 THEN after ELSE SubSeq(after, 1, k - 1)

MarkerOf(p) == IF p.action = "generate" THEN "generate: "
               ELSE IF p.action = "refactor" THEN "refactor: "
               ELSE "silos: "

\* C21 (as claimed): the description a code action takes from a selection
\* is the text between its marker and the end of the marker's line; it
\* holds no newline.
C21_PromptIsMarkerLine ==
    \A p \in {parsed, extracted} :
        p.kind = "Some" =>
            /\ p.description = RestOfLine(selected_text, MarkerOf(p))
            /\ \A k \in DOMAIN p.description : p.description[k] # "\n"

====
